---- MODULE Spec2Model ----
(***************************************************************************)
(* BrainRust: compile_opcodes, compile_jump_table and the tape machine of  *)
(* brainf_output (src/main.rs).  Indices are 0-based as in the source: the *)
(* element at index i of a Vec v is v[i+1] of the sequence that models it. *)
(***************************************************************************)
EXTENDS Integers, Sequences, FiniteSets, TLC

VARIABLES src, opcodes, jt, table, tape, tape_pos, program_counter,
          stdout, stdin_read, phase, panic_msg, prev_pc,
          r_pc, r_pos, r_cells, r_out, r_sync

\* the reference interpreter that the folded pipeline is compared with
ref == <<r_pc, r_pos, r_cells, r_out, r_sync>>

vars == <<src, opcodes, jt, table, tape, tape_pos, program_counter,
          stdout, stdin_read, phase, panic_msg, prev_pc, ref>>

\* ------------------------------------------------------------------ bounds
\* longest source drawn from the full alphabet (eight commands and a comment)
MaxLen == 3
\* longest source drawn from the loop alphabet "+", "[", "]"
MaxBr == 6
\* most cells the tape may grow to
MaxTape == 4
\* most bytes written to the sink
MaxOut == 13
\* most bytes the input source yields
MaxIn == 2

\* width of Add(u8) / Sub(u8) and of a tape cell
U8 == 256
\* str::from_utf8 accepts a lone byte only below 0x80
Utf8Single == 128

\* --------------------------------------------------------------- alphabet
Commands == {"+", "-", "<", ">", "[", "]", ".", ","}
Alphabet == Commands \cup {"x"}
LoopAlphabet == {"+", "[", "]"}
InBytes == {0, 1, 127, 128, 255}

\* the loops that are run from every starting cell value: for these sources
\* the input source may yield any byte
UnitLoops == { <<",", "[", "-", "]">>, <<",", "[", "+", "]">> }

StdinBytes(s) == IF s \in UnitLoops THEN 0..255 ELSE InBytes

Rep(c, n) == [k \in 1..n |-> c]

StrOfLen(A, n) == UNION {[1..k -> A] : k \in 0..n}

\* the program of tests::prints_hello_world; each stretch of comment text is
\* written as one "x"
HelloWorld ==
  <<
    ">", "+", "+", "+", "x", "+", "+", "+", "+", "+", "[", "<", "+", "+",
    "+", "+", "+", "+", "+", "+", "+", ">", "-", "]", "<", ".", ">", "+",
    "+", "+", "+", "[", "<", "+", "+", "+", "+", "+", "x", "+", "+", ">",
    "-", "]", "<", "+", ".", "+", "+", "+", "+", "+", "+", "+", ".", ".",
    "+", "+", "+", ".", ">", ">", "+", "+", "+", "+", "+", "+", "[", "<",
    "+", "+", "+", "+", "+", "+", "+", ">", "-", "]", "<", "+", "x", "+",
    ".", "-", "-", "-", "-", "-", "-", "-", "-", "-", "-", "-", "-", ".",
    ">", "+", "+", "+", "+", "+", "+", "[", "<", "+", "+", "+", "+", "+",
    "+", "+", "+", "+", ">", "-", "]", "<", "+", ".", "<", ".", "+", "+",
    "+", ".", "-", "-", "-", "-", "-", "-", ".", "-", "x", "-", "-", "-",
    "-", "-", "-", "-", ".", ">", ">", ">", "+", "+", "+", "+", "[", "<",
    "+", "+", "+", "+", "+", "+", "+", "+", ">", "-", "x", "]", "<", "+",
    "."
  >>

LongSources ==
  { HelloWorld,
    Rep("+", 255), Rep("+", 256), Rep("+", 257), Rep("-", 256),
    Rep("+", 256) \o <<".">>,
    Rep("+", 258) \o <<"-", "-">>,
    Rep(">", 3) \o Rep("<", 5),
    <<"+", "+", "-", "-">>, <<"-", "-", "+">>,
    <<"+", "x", "+">>,
    <<"+", "+", "[", "-", "]", "[", "]">>,
    <<"[", "+", ".", "]">>,
    <<"[", "[", "+", ".", "]", ",", "]", "+", ".">>,
    <<"+", "[", "-", "[", ".", "]", "]", ".">>,
    <<"+", ".", ",", "[", "]", "]", "[">>,
    <<"+", ".", ",", "[", "[", "]">>,
    <<">", "+", "+", "-", "[", "-", "]", ",", ".", "<">>,
    <<"+", "-", "[", "[", "-", "-", "-", "]", "]", ",", ".", ".", ".">>,
    <<"-", ".">>,
    <<",", "[", ".", ",", "]">>,
    <<">", "+", "<", "<", "+", "<", ">", ">", ">", "+">>,
    <<">", ">", "+", "<", "+", ">", "+", "<", "<", "<", "-">>,
    <<"+", "<", "+", "<", "<", "+", ">", ">", ">", "-">>,
    <<"+", "+", "[", "-", "]">>,
    <<"-", "-", "[", "+", "]">>,
    <<">", "+", "+", "[", "-", "<", "-", ">", "]", "<", "[", "+", "]">>,
    <<",", "[", "-", "]">>,
    <<",", "[", "+", "]">> }

Sources == StrOfLen(Alphabet, MaxLen) \cup StrOfLen(LoopAlphabet, MaxBr)
             \cup LongSources

\* ---------------------------------------------------------------- opcodes
Opcode(o, n) == [op |-> o, n |-> n]

LoopOps == {"BeginLoop", "EndLoop"}
CountedOps == {"Add", "Sub", "ShiftLeft", "ShiftRight"}

\* ------------------------------------------------------ compile_jump_table
Ok(t) == [ok |-> TRUE, table |-> t, err |-> "", n |-> 0]

\* variant: the error reports the 1-based position of the ']'
MismatchedCloseOneBased(i) == [ok |-> FALSE, table |-> <<>>, err |-> "Mismatched ']' at", n |-> i + 1]

MismatchedClose(i) == [ok |-> FALSE, table |-> <<>>, err |-> "Mismatched ']' at", n |-> i]

TooManyOpen(stack) == [ok |-> FALSE, table |-> <<>>, err |-> "too many '['", n |-> Len(stack)]

ZeroTable(ops) == [k \in 1..Len(ops) |-> 0]

\* variant: the oldest pending '[' is taken instead of the newest
StackBottom(stack) == stack[1]

StackTop(stack) == stack[Len(stack)]

StackPop(stack) == SubSeq(stack, 1, Len(stack) - 1)

\* variant: only the '[' entry is written, line 26 is missing
LinkPairOneWay(t, left_bracket, i) == [t EXCEPT ![left_bracket + 1] = i]

LinkPair(t, left_bracket, i) ==
  [t EXCEPT ![left_bracket + 1] = i, ![i + 1] = left_bracket]

\* variant: the final stack check is missing
FinishUnchecked(stack, t) == Ok(t)

Finish(stack, t) == IF Len(stack) = 0 THEN Ok(t) ELSE TooManyOpen(stack)

RECURSIVE ScanFrom(_, _, _, _)
ScanFrom(ops, i, stack, t) ==
  IF i = Len(ops) THEN Finish(stack, t)
  ELSE IF ops[i + 1].op = "BeginLoop" THEN ScanFrom(ops, i + 1, Append(stack, i), t)
  ELSE IF ops[i + 1].op = "EndLoop" THEN
         IF Len(stack) = 0 THEN MismatchedClose(i)
         ELSE ScanFrom(ops, i + 1, StackPop(stack), LinkPair(t, StackTop(stack), i))
  ELSE ScanFrom(ops, i + 1, stack, t)

compile_jump_table(ops) == ScanFrom(ops, 0, <<>>, ZeroTable(ops))

\* --------------------------------------------------------- compile_opcodes
\* variant: the retain of line 69 is missing
RetainAll(s) == s

Retain(s) == SelectSeq(s, LAMBDA c : c \in Commands)

ArithChars == {"+", "-"}
ShiftChars == {"<", ">"}

CharClass(c) == IF c \in ArithChars THEN ArithChars
                ELSE IF c \in ShiftChars THEN ShiftChars
                ELSE {}

\* variant: the pattern is [-+]|[<>]|..., every match is one character
MatchEndOneChar(s, a, class) == a

\* end (inclusive, 1-based) of the regex match that starts at position a: the
\* greedy [-+]+ or [<>]+ takes every following character of the class, the
\* other alternatives take one character
MatchEnd(s, a, class) ==
  IF class = {} THEN a
  ELSE CHOOSE b \in a..Len(s) :
         /\ (b = Len(s) \/ s[b + 1] \notin class)
         /\ \A k \in a..b : s[k] \in class

CountOf(s, a, b, c) == Cardinality({k \in a..b : s[k] = c})

AsU8(n) == n % U8

ArithOpcode(num_plus, num_minus) ==
  IF num_plus = num_minus THEN <<>>
  ELSE IF num_plus > num_minus THEN <<Opcode("Add", AsU8(num_plus - num_minus))>>
  ELSE <<Opcode("Sub", AsU8(num_minus - num_plus))>>

ShiftOpcode(num_right, num_left) ==
  IF num_right = num_left THEN <<>>
  ELSE IF num_right > num_left THEN <<Opcode("ShiftRight", num_right - num_left)>>
  ELSE <<Opcode("ShiftLeft", num_left - num_right)>>

SingleOpcode(c) ==
  IF c = "." THEN <<Opcode("Print", 0)>>
  ELSE IF c = "," THEN <<Opcode("Input", 0)>>
  ELSE IF c = "[" THEN <<Opcode("BeginLoop", 0)>>
  ELSE IF c = "]" THEN <<Opcode("EndLoop", 0)>>
  ELSE <<>>

MatchOpcode(s, a, b) ==
  IF s[a] \in ArithChars
    THEN LET num_minus == CountOf(s, a, b, "-")
         IN ArithOpcode((b - a + 1) - num_minus, num_minus)
  ELSE IF s[a] \in ShiftChars
    THEN LET num_left == CountOf(s, a, b, "<")
         IN ShiftOpcode((b - a + 1) - num_left, num_left)
  ELSE SingleOpcode(s[a])

RECURSIVE FindIter(_, _)
FindIter(s, a) ==
  IF a > Len(s) THEN <<>>
  ELSE LET b == MatchEnd(s, a, CharClass(s[a]))
       IN MatchOpcode(s, a, b) \o FindIter(s, b + 1)

compile_opcodes(s) == FindIter(Retain(s), 1)

\* ------------------------------------------- the reference interpreter
\* It executes the comment-stripped source one character at a time on a tape
\* that is unbounded in both directions: r_cells maps the positions that hold
\* a non-zero byte to that byte, r_pos is any integer, and brackets are
\* matched by scanning the source.
\* two adjacent command characters belong to one run
SameRun(c, d) == {c, d} \subseteq {"+", "-"} \/ {c, d} \subseteq {"<", ">"}

RunStarts(s) == {i \in 1..Len(s) : i = 1 \/ ~SameRun(s[i - 1], s[i])}

RunEnd(s, i) ==
  CHOOSE j \in i..Len(s) :
    /\ (j = Len(s) \/ ~SameRun(s[j], s[j + 1]))
    /\ \A k \in (i + 1)..j : SameRun(s[k - 1], s[k])

Occurrences(s, i, c) == Cardinality({k \in i..RunEnd(s, i) : s[k] = c})

Net(more, less, p, m) ==
  IF p = m THEN <<>>
  ELSE IF p > m THEN <<Opcode(more, p - m)>> ELSE <<Opcode(less, m - p)>>

\* what the run that starts at i folds to: no opcode or one opcode
FoldedRun(s, i) ==
  IF s[i] \in {"+", "-"}
    THEN Net("Add", "Sub", Occurrences(s, i, "+"), Occurrences(s, i, "-"))
  ELSE IF s[i] \in {"<", ">"}
    THEN Net("ShiftRight", "ShiftLeft", Occurrences(s, i, ">"), Occurrences(s, i, "<"))
  ELSE IF s[i] = "." THEN <<Opcode("Print", 0)>>
  ELSE IF s[i] = "," THEN <<Opcode("Input", 0)>>
  ELSE IF s[i] = "[" THEN <<Opcode("BeginLoop", 0)>>
  ELSE <<Opcode("EndLoop", 0)>>

Emitting(s) == {i \in RunStarts(s) : FoldedRun(s, i) # <<>>}

Folded(s) ==
  [k \in 1..Cardinality(Emitting(s)) |->
     FoldedRun(s, CHOOSE i \in Emitting(s) :
                    Cardinality({j \in Emitting(s) : j < i}) = k - 1)[1]]

Stripped(s) == SelectSeq(s, LAMBDA c : c # "x")


\* r_sync[k + 1] is the source index (0-based) of the character at which the
\* run that opcode k is folded from starts; the last entry is the source length
SyncPoints(s) ==
  LET E == Emitting(s)
  IN [k \in 1..(Cardinality(E) + 1) |->
        IF k = Cardinality(E) + 1 THEN Len(s)
        ELSE (CHOOSE i \in E : Cardinality({j \in E : j < i}) = k - 1) - 1]

RefCell == IF r_pos \in DOMAIN r_cells THEN r_cells[r_pos] ELSE 0

RefWrite(v) ==
  LET D == IF v = 0 THEN DOMAIN r_cells \ {r_pos} ELSE DOMAIN r_cells \cup {r_pos}
  IN [p \in D |-> IF p = r_pos THEN v ELSE r_cells[p]]

\* depth of '[' over ']' among the characters a..b (0-based)
CharBalance(s, a, b) ==
  Cardinality({k \in a..b : s[k + 1] = "["}) - Cardinality({k \in a..b : s[k + 1] = "]"})

ScanForward(s, i) ==
  CHOOSE j \in (i + 1)..(Len(s) - 1) :
    /\ s[j + 1] = "]"
    /\ CharBalance(s, i, j) = 0
    /\ \A k \in (i + 1)..(j - 1) : s[k + 1] = "]" => CharBalance(s, i, k) # 0

ScanBackward(s, j) ==
  CHOOSE i \in 0..(j - 1) :
    /\ s[i + 1] = "["
    /\ CharBalance(s, i, j) = 0
    /\ \A k \in (i + 1)..(j - 1) : s[k + 1] = "[" => CharBalance(s, k, j) # 0

RefDone == r_pc = Len(Stripped(src))

\* ------------------------------------------------------------------ state
NoResult == [ok |-> FALSE, table |-> <<>>, err |-> "not built", n |-> 0]

Init ==
  /\ src \in Sources
  /\ opcodes = <<>>
  /\ jt = NoResult
  /\ table = <<>>
  /\ tape = <<0>>
  /\ tape_pos = 0
  /\ program_counter = 0
  /\ stdout = <<>>
  /\ stdin_read = 0
  /\ phase = "start"
  /\ panic_msg = ""
  /\ prev_pc = -1
  /\ r_pc = 0
  /\ r_pos = 0
  /\ r_cells = <<>>
  /\ r_out = <<>>
  /\ r_sync = SyncPoints(Stripped(src))

\* ---------------------------------------------------------- brainf_output
CompileOpcodes ==
  /\ phase = "start"
  /\ opcodes' = compile_opcodes(src)
  /\ phase' = "compiled"
  /\ UNCHANGED <<ref, src, jt, table, tape, tape_pos, program_counter, stdout,
                 stdin_read, panic_msg, prev_pc>>

\* compile_jump_table(&opcodes) returned Ok: expect() unwraps the table
JumpTableOk ==
  /\ phase = "compiled"
  /\ compile_jump_table(opcodes).ok
  /\ jt' = compile_jump_table(opcodes)
  /\ table' = compile_jump_table(opcodes).table
  /\ phase' = "run"
  /\ UNCHANGED <<ref, src, opcodes, tape, tape_pos, program_counter, stdout,
                 stdin_read, panic_msg, prev_pc>>

\* variant: the Err is ignored and the loop runs on an all-zero table
JumpTableErrIgnored ==
  /\ phase = "compiled"
  /\ ~compile_jump_table(opcodes).ok
  /\ jt' = compile_jump_table(opcodes)
  /\ table' = [k \in 1..Len(opcodes) |-> 0]
  /\ phase' = "run"
  /\ UNCHANGED <<ref, src, opcodes, tape, tape_pos, program_counter, stdout,
                 stdin_read, panic_msg, prev_pc>>

\* compile_jump_table(&opcodes) returned Err: expect() panics
JumpTableErr ==
  /\ phase = "compiled"
  /\ ~compile_jump_table(opcodes).ok
  /\ jt' = compile_jump_table(opcodes)
  /\ phase' = "panicked"
  /\ panic_msg' = "Mismatched brackets"
  /\ UNCHANGED <<ref, src, opcodes, table, tape, tape_pos, program_counter, stdout,
                 stdin_read, prev_pc>>

Dispatching(o) ==
  /\ phase = "run"
  /\ program_counter < Len(opcodes)
  /\ opcodes[program_counter + 1].op = o

Cur == opcodes[program_counter + 1]

Cell == tape[tape_pos + 1]

\* line 159, and the bookkeeping of which opcode was dispatched last
Advance(pc) ==
  /\ program_counter' = pc + 1
  /\ prev_pc' = program_counter

Panic(msg) ==
  /\ phase' = "panicked"
  /\ panic_msg' = msg
  /\ prev_pc' = program_counter
  /\ UNCHANGED program_counter

\* variant: plain addition, no wrap
UncheckedAdd(c, v) == c + v

\* variant: saturating_add
SaturatingAdd(c, v) == IF c + v > U8 - 1 THEN U8 - 1 ELSE c + v

WrappingAdd(c, v) == (c + v) % U8

WrappingSub(c, v) == (c + U8 - v) % U8

Zeros(n) == [k \in 1..n |-> 0]

OpAdd ==
  /\ Dispatching("Add")
  /\ tape' = [tape EXCEPT ![tape_pos + 1] = WrappingAdd(Cell, Cur.n)]
  /\ Advance(program_counter)
  /\ UNCHANGED <<ref, src, opcodes, jt, table, tape_pos, stdout, stdin_read, phase, panic_msg>>

OpSub ==
  /\ Dispatching("Sub")
  /\ tape' = [tape EXCEPT ![tape_pos + 1] = WrappingSub(Cell, Cur.n)]
  /\ Advance(program_counter)
  /\ UNCHANGED <<ref, src, opcodes, jt, table, tape_pos, stdout, stdin_read, phase, panic_msg>>

\* variant: the tape grows by shift cells instead of shift - tape_pos
OpShiftLeftGrowsByShift ==
  /\ Dispatching("ShiftLeft")
  /\ IF tape_pos < Cur.n
       THEN /\ Len(tape) + Cur.n <= MaxTape
            /\ tape' = Zeros(Cur.n) \o tape
            /\ tape_pos' = 0
       ELSE /\ tape_pos' = tape_pos - Cur.n
            /\ UNCHANGED tape
  /\ Advance(program_counter)
  /\ UNCHANGED <<ref, src, opcodes, jt, table, stdout, stdin_read, phase, panic_msg>>

OpShiftLeft ==
  /\ Dispatching("ShiftLeft")
  /\ IF tape_pos < Cur.n
       THEN /\ Len(tape) + (Cur.n - tape_pos) <= MaxTape
            /\ tape' = Zeros(Cur.n - tape_pos) \o tape
            /\ tape_pos' = 0
       ELSE /\ tape_pos' = tape_pos - Cur.n
            /\ UNCHANGED tape
  /\ Advance(program_counter)
  /\ UNCHANGED <<ref, src, opcodes, jt, table, stdout, stdin_read, phase, panic_msg>>

\* variant: the while loop of lines 137-139 is missing
OpShiftRightNoGrow ==
  /\ Dispatching("ShiftRight")
  /\ tape_pos + Cur.n < MaxTape
  /\ tape_pos' = tape_pos + Cur.n
  /\ UNCHANGED tape
  /\ Advance(program_counter)
  /\ UNCHANGED <<ref, src, opcodes, jt, table, stdout, stdin_read, phase, panic_msg>>

\* variant: shift cells are pushed whether or not they are needed
OpShiftRightAlwaysPush ==
  /\ Dispatching("ShiftRight")
  /\ tape_pos + Cur.n < MaxTape
  /\ tape_pos' = tape_pos + Cur.n
  /\ tape' = tape \o Zeros(Cur.n)
  /\ Advance(program_counter)
  /\ UNCHANGED <<ref, src, opcodes, jt, table, stdout, stdin_read, phase, panic_msg>>

OpShiftRight ==
  /\ Dispatching("ShiftRight")
  /\ tape_pos + Cur.n < MaxTape
  /\ tape_pos' = tape_pos + Cur.n
  /\ tape' = IF tape_pos + Cur.n >= Len(tape)
               THEN tape \o Zeros(tape_pos + Cur.n + 1 - Len(tape))
               ELSE tape
  /\ Advance(program_counter)
  /\ UNCHANGED <<ref, src, opcodes, jt, table, stdout, stdin_read, phase, panic_msg>>

\* str::from_utf8(&[cell]) is Ok exactly for a byte below 0x80
FromUtf8Ok(b) == b < Utf8Single

\* the byte is valid UTF-8 and the sink accepts the write and the flush
OpPrint ==
  /\ Dispatching("Print")
  /\ FromUtf8Ok(Cell)
  /\ Len(stdout) < MaxOut
  /\ stdout' = Append(stdout, Cell)
  /\ Advance(program_counter)
  /\ UNCHANGED <<ref, src, opcodes, jt, table, tape, tape_pos, stdin_read, phase, panic_msg>>

\* str::from_utf8(..).ok().unwrap() on a byte that is not valid UTF-8
OpPrintNotUtf8 ==
  /\ Dispatching("Print")
  /\ ~FromUtf8Ok(Cell)
  /\ Panic("unwrap on None")
  /\ UNCHANGED <<ref, src, opcodes, jt, table, tape, tape_pos, stdout, stdin_read>>

\* the sink rejects the write: expect("Could not write")
OpPrintSinkFails ==
  /\ Dispatching("Print")
  /\ FromUtf8Ok(Cell)
  /\ Panic("Could not write")
  /\ UNCHANGED <<ref, src, opcodes, jt, table, tape, tape_pos, stdout, stdin_read>>

\* io::stdin().bytes().next() yields Some(Ok(b))
OpInput ==
  /\ Dispatching("Input")
  /\ stdin_read < MaxIn
  /\ \E b \in StdinBytes(src) : tape' = [tape EXCEPT ![tape_pos + 1] = b]
  /\ stdin_read' = stdin_read + 1
  /\ Advance(program_counter)
  /\ UNCHANGED <<ref, src, opcodes, jt, table, tape_pos, stdout, phase, panic_msg>>

\* io::stdin().bytes().next() yields None: expect("no byte read")
OpInputExhausted ==
  /\ Dispatching("Input")
  /\ Panic("no byte read")
  /\ UNCHANGED <<ref, src, opcodes, jt, table, tape, tape_pos, stdout, stdin_read>>

\* variant: the test of line 149 is inverted
OpBeginLoopInverted ==
  /\ Dispatching("BeginLoop")
  /\ IF Cell # 0
       THEN Advance(table[program_counter + 1])
       ELSE Advance(program_counter)
  /\ UNCHANGED <<ref, src, opcodes, jt, table, tape, tape_pos, stdout, stdin_read, phase, panic_msg>>

OpBeginLoop ==
  /\ Dispatching("BeginLoop")
  /\ IF Cell = 0
       THEN Advance(table[program_counter + 1])
       ELSE Advance(program_counter)
  /\ UNCHANGED <<ref, src, opcodes, jt, table, tape, tape_pos, stdout, stdin_read, phase, panic_msg>>

\* variant: the jump lands on the BeginLoop itself, which is tested again
OpEndLoopRetest ==
  /\ Dispatching("EndLoop")
  /\ IF Cell # 0
       THEN /\ program_counter' = table[program_counter + 1]
            /\ prev_pc' = program_counter
       ELSE Advance(program_counter)
  /\ UNCHANGED <<ref, src, opcodes, jt, table, tape, tape_pos, stdout, stdin_read, phase, panic_msg>>

OpEndLoop ==
  /\ Dispatching("EndLoop")
  /\ IF Cell # 0
       THEN Advance(table[program_counter + 1])
       ELSE Advance(program_counter)
  /\ UNCHANGED <<ref, src, opcodes, jt, table, tape, tape_pos, stdout, stdin_read, phase, panic_msg>>

\* the while condition of line 121 fails: brainf_output returns
Return ==
  /\ phase = "run"
  /\ ~(program_counter < Len(opcodes))
  /\ phase' = "returned"
  /\ UNCHANGED <<ref, src, opcodes, jt, table, tape, tape_pos, program_counter,
                 stdout, stdin_read, panic_msg, prev_pc>>

Next ==
  \/ CompileOpcodes
  \/ JumpTableOk
  \/ JumpTableErr
  \/ OpAdd
  \/ OpSub
  \/ OpShiftLeft
  \/ OpShiftRight
  \/ OpPrint
  \/ OpPrintNotUtf8
  \/ OpPrintSinkFails
  \/ OpInput
  \/ OpInputExhausted
  \/ OpBeginLoop
  \/ OpEndLoop
  \/ Return

Spec == Init /\ [][Next]_vars

\* one pass of the while loop of line 121, or its exit
LoopStep ==
  \/ OpAdd \/ OpSub \/ OpShiftLeft \/ OpShiftRight
  \/ OpPrint \/ OpPrintNotUtf8 \/ OpPrintSinkFails
  \/ OpInput \/ OpInputExhausted
  \/ OpBeginLoop \/ OpEndLoop
  \/ Return

\* brainf_output is one thread that keeps executing: while the loop can take
\* a step, it takes one
FairSpec == Spec /\ WF_vars(LoopStep)

\* ------------------------------------- the reference interpreter's steps
engine == <<src, opcodes, jt, table, tape, tape_pos, program_counter,
            stdout, stdin_read, phase, panic_msg, prev_pc>>

RefChar == Stripped(src)[r_pc + 1]

\* one character of the source
RefStep ==
  /\ ~RefDone
  /\ \/ /\ RefChar = "+"
        /\ r_cells' = RefWrite((RefCell + 1) % 256)
        /\ r_pc' = r_pc + 1
        /\ UNCHANGED <<r_pos, r_out>>
     \/ /\ RefChar = "-"
        /\ r_cells' = RefWrite((RefCell + 255) % 256)
        /\ r_pc' = r_pc + 1
        /\ UNCHANGED <<r_pos, r_out>>
     \/ /\ RefChar = ">"
        /\ r_pos' = r_pos + 1
        /\ r_pc' = r_pc + 1
        /\ UNCHANGED <<r_cells, r_out>>
     \/ /\ RefChar = "<"
        /\ r_pos' = r_pos - 1
        /\ r_pc' = r_pc + 1
        /\ UNCHANGED <<r_cells, r_out>>
     \/ /\ RefChar = "."
        /\ r_out' = Append(r_out, RefCell)
        /\ r_pc' = r_pc + 1
        /\ UNCHANGED <<r_cells, r_pos>>
     \/ /\ RefChar = ","
        \* the byte the engine has just read
        /\ phase = "run" /\ prev_pc >= 0 /\ opcodes[prev_pc + 1].op = "Input"
        /\ r_cells' = RefWrite(Cell)
        /\ r_pc' = r_pc + 1
        /\ UNCHANGED <<r_pos, r_out>>
     \/ /\ RefChar = "["
        /\ r_pc' = IF RefCell = 0 THEN ScanForward(Stripped(src), r_pc) + 1 ELSE r_pc + 1
        /\ UNCHANGED <<r_cells, r_pos, r_out>>
     \/ /\ RefChar = "]"
        /\ r_pc' = IF RefCell # 0 THEN ScanBackward(Stripped(src), r_pc) + 1 ELSE r_pc + 1
        /\ UNCHANGED <<r_cells, r_pos, r_out>>
  /\ UNCHANGED <<r_sync, engine>>

\* the reference runs the programs that compile_jump_table accepted; it is
\* behind while it has not reached the character that the engine's next
\* opcode starts at, and it goes on alone when the engine has panicked
RefTurn ==
  /\ jt.ok
  /\ ~RefDone
  /\ \/ phase = "panicked"
     \/ r_pc # r_sync[program_counter + 1]

EngineTurn == ~RefTurn /\ Next

ReferenceTurn == RefTurn /\ RefStep

EquivNext ==
  \/ EngineTurn
  \/ ReferenceTurn

\* the engine and the reference interpreter, taking turns
EquivSpec == Init /\ [][EquivNext]_vars

TypeOK ==
  /\ phase \in {"start", "compiled", "run", "returned", "panicked"}
  /\ tape_pos \in 0..(Len(tape) - 1)
  /\ \A k \in 1..Len(tape) : tape[k] \in 0..(U8 - 1)

\* ------------------------------------------------- vocabulary of the claims
OpAt(i) == opcodes[i + 1].op

Indices == 0..(Len(opcodes) - 1)

\* compile_jump_table has been called on opcodes
Built == phase \in {"run", "returned", "panicked"}

\* number of BeginLoop minus number of EndLoop among the indices a..b
Balance(ops, a, b) ==
  Cardinality({k \in a..b : ops[k + 1].op = "BeginLoop"})
    - Cardinality({k \in a..b : ops[k + 1].op = "EndLoop"})

HasUnmatchedClose(ops) == \E i \in 0..(Len(ops) - 1) : Balance(ops, 0, i) < 0

WellBracketed(ops) ==
  /\ ~HasUnmatchedClose(ops)
  /\ Balance(ops, 0, Len(ops) - 1) = 0

\* the syntactic partner of the BeginLoop at i: the smallest j > i such that
\* the opcodes from i to j are balanced
Partner(ops, i) ==
  CHOOSE j \in (i + 1)..(Len(ops) - 1) :
    /\ Balance(ops, i, j) = 0
    /\ \A k \in i..(j - 1) : Balance(ops, i, k) # 0

\* C1: for a well-bracketed opcode sequence compile_jump_table returns a
\* table with table[table[i]] = i at every loop-boundary index i, where a
\* BeginLoop maps to an EndLoop at a larger index and an EndLoop to a
\* BeginLoop at a smaller index.
C1_Involution ==
  (Built /\ WellBracketed(opcodes)) =>
    /\ jt.ok
    /\ \A i \in Indices : OpAt(i) \in LoopOps =>
         /\ jt.table[i + 1] \in Indices
         /\ jt.table[jt.table[i + 1] + 1] = i
         /\ OpAt(i) = "BeginLoop" =>
              (OpAt(jt.table[i + 1]) = "EndLoop" /\ jt.table[i + 1] > i)
         /\ OpAt(i) = "EndLoop" =>
              (OpAt(jt.table[i + 1]) = "BeginLoop" /\ jt.table[i + 1] < i)

\* a table was returned for a sequence with a loop nested in a loop
C1_Witness ==
  /\ Built /\ jt.ok
  /\ \E i \in Indices : /\ i + 1 \in Indices
                        /\ OpAt(i) = "BeginLoop" /\ OpAt(i + 1) = "BeginLoop"
                        /\ jt.table[i + 1] > jt.table[i + 2]

\* C2: for a well-bracketed opcode sequence the table has the length of the
\* sequence, each BeginLoop index i holds its syntactic partner j and j holds
\* i, and every index that is not a loop boundary holds 0; "++[-][]" gives
\* [0, 3, 0, 1, 5, 4] and "[]" gives [1, 0].
C2_PartnerTable ==
  /\ (Built /\ WellBracketed(opcodes)) =>
       /\ jt.ok
       /\ Len(jt.table) = Len(opcodes)
       /\ \A i \in Indices :
            /\ OpAt(i) = "BeginLoop" =>
                 /\ jt.table[i + 1] = Partner(opcodes, i)
                 /\ jt.table[Partner(opcodes, i) + 1] = i
            /\ OpAt(i) \notin LoopOps => jt.table[i + 1] = 0
  /\ (Built /\ src = <<"+", "+", "[", "-", "]", "[", "]">>) =>
       (jt.ok /\ jt.table = <<0, 3, 0, 1, 5, 4>>)
  /\ (Built /\ src = <<"[", "]">>) => (jt.ok /\ jt.table = <<1, 0>>)

\* the table of "++[-][]" has been built, and so has one with a nested loop
\* around a non-loop opcode
C2_Witness ==
  /\ Built /\ jt.ok
  /\ \/ src = <<"+", "+", "[", "-", "]", "[", "]">>
     \/ \E i \in Indices : /\ OpAt(i) = "BeginLoop"
                           /\ jt.table[i + 1] > i + 3
  /\ \E i \in Indices : OpAt(i) \notin LoopOps

\* C3: dispatching BeginLoop on a zero cell moves the program counter to the
\* index after the matching EndLoop and leaves tape, position and output
\* unchanged, so no opcode of the body is dispatched; "[+.]" writes nothing.
C3_SkipLoop ==
  /\ [][(Dispatching("BeginLoop") /\ Cell = 0) =>
          /\ program_counter' = Partner(opcodes, program_counter) + 1
          /\ phase' = "run"
          /\ UNCHANGED <<tape, tape_pos, stdout, stdin_read>>]_vars
  /\ [](src = <<"[", "+", ".", "]">> => stdout = <<>>)

\* a non-empty loop body has just been skipped
C3_Witness ==
  /\ phase = "run"
  /\ prev_pc >= 0
  /\ OpAt(prev_pc) = "BeginLoop"
  /\ program_counter > prev_pc + 2
  /\ Cell = 0

\* C4: Print appends exactly the byte of the current cell, whatever its
\* value in 0..255, and the run continues (a sink that rejects the write is
\* not a failure caused by the cell value and is left out).
C4_PrintAnyByte ==
  [][(Dispatching("Print") /\ panic_msg' # "Could not write") =>
       /\ stdout' = Append(stdout, Cell)
       /\ phase' = "run"]_vars

\* C5: every Add, Sub, ShiftLeft and ShiftRight that compile_opcodes emits
\* carries n > 0.
C5_PositiveCount ==
  \A k \in 1..Len(opcodes) : opcodes[k].op \in CountedOps => opcodes[k].n > 0

\* C6: each maximal run of '+'/'-' of the stripped source folds to at most
\* one Add or Sub whose magnitude is the absolute difference of the two
\* counts, nothing when they are equal, and likewise for '<'/'>'.
C6_FoldedRuns == phase # "start" => opcodes = Folded(Stripped(src))

\* C7: for an opcode sequence with an EndLoop that has no pending BeginLoop,
\* compile_jump_table returns the mismatched-close error with the index of
\* the leftmost such EndLoop, whatever brackets follow it.
C7_LeftmostClose ==
  (Built /\ HasUnmatchedClose(opcodes)) =>
    /\ ~jt.ok
    /\ jt.err = "Mismatched ']' at"
    /\ jt.n \in Indices
    /\ Balance(opcodes, 0, jt.n) < 0
    /\ \A k \in 0..(jt.n - 1) : Balance(opcodes, 0, k) >= 0

\* the error was reported at an index past 0 that is followed by more brackets
C7_Witness ==
  /\ Built /\ ~jt.ok
  /\ jt.err = "Mismatched ']' at"
  /\ jt.n > 0
  /\ \E k \in Indices : k > jt.n /\ OpAt(k) \in LoopOps

\* C8: for an opcode sequence without an unmatched EndLoop,
\* compile_jump_table succeeds exactly when no BeginLoop is left pending, and
\* otherwise fails with the unmatched-open error whose count is the number of
\* BeginLoop minus the number of EndLoop.
C8_UnmatchedOpens ==
  (Built /\ ~HasUnmatchedClose(opcodes)) =>
    /\ jt.ok <=> Balance(opcodes, 0, Len(opcodes) - 1) = 0
    /\ ~jt.ok => /\ jt.err = "too many '['"
                 /\ jt.n = Balance(opcodes, 0, Len(opcodes) - 1)

\* two opens and one close were reported as one unmatched open
C8_Witness ==
  /\ Built /\ ~jt.ok
  /\ jt.err = "too many '['"
  /\ jt.n = 1
  /\ Cardinality({k \in Indices : OpAt(k) = "BeginLoop"}) = 2
  /\ Cardinality({k \in Indices : OpAt(k) = "EndLoop"}) = 1

\* C9: a program whose brackets are not well-formed never starts running: no
\* opcode is dispatched, nothing is written or read and the tape is never
\* modified, and the run ends with the structural error.
C9_NeverStarts ==
  ~WellBracketed(compile_opcodes(src)) =>
    /\ phase \in {"start", "compiled", "panicked"}
    /\ phase = "panicked" => panic_msg = "Mismatched brackets"
    /\ prev_pc = -1 /\ program_counter = 0
    /\ stdout = <<>> /\ stdin_read = 0
    /\ tape = <<0>> /\ tape_pos = 0

\* the structural error was raised for a program whose offending bracket
\* comes after an Add, a Print and an Input
C9_Witness ==
  /\ phase = "panicked" /\ panic_msg = "Mismatched brackets"
  /\ ~WellBracketed(opcodes)
  /\ Len(opcodes) > 3
  /\ OpAt(0) = "Add" /\ OpAt(1) = "Print" /\ OpAt(2) = "Input"

\* C10: an exhausted input source or a rejected write never ends the run by
\* a panic; the run call returns an error value instead.
C10_ErrorReturned ==
  phase = "panicked" => panic_msg \notin {"no byte read", "Could not write"}

\* the BeginLoop whose syntactic partner is the EndLoop at j
OpenPartner(ops, j) ==
  CHOOSE i \in 0..(j - 1) : ops[i + 1].op = "BeginLoop" /\ Partner(ops, i) = j

Max(a, b) == IF a > b THEN a ELSE b

\* C11: ShiftLeft(n) at position p < n prepends exactly n - p zero cells,
\* keeps the existing cells in order and sets the position to 0; with p >= n
\* it sets the position to p - n and leaves the tape unchanged; the run goes
\* on and the position is never negative.
C11_ShiftLeft ==
  [][Dispatching("ShiftLeft") =>
       /\ phase' = "run"
       /\ tape_pos' >= 0
       /\ IF tape_pos < Cur.n
            THEN /\ Len(tape') = Len(tape) + (Cur.n - tape_pos)
                 /\ \A k \in 1..(Cur.n - tape_pos) : tape'[k] = 0
                 /\ \A k \in 1..Len(tape) : tape'[k + (Cur.n - tape_pos)] = tape[k]
                 /\ tape_pos' = 0
            ELSE /\ tape_pos' = tape_pos - Cur.n
                 /\ tape' = tape]_vars

\* a left shift past the start has grown a tape that held a non-zero cell
\* (no ShiftRight in the program: every left shift starts at position 0)
C11_Witness ==
  /\ phase = "run" /\ prev_pc >= 0
  /\ OpAt(prev_pc) = "ShiftLeft"
  /\ \A k \in Indices : OpAt(k) # "ShiftRight"
  /\ tape_pos = 0
  /\ Len(tape) > 1
  /\ tape[1] = 0
  /\ \E k \in 2..Len(tape) : tape[k] # 0

\* C14: EndLoop on a non-zero cell moves the counter to the index after the
\* matching BeginLoop, on a zero cell to the index after the EndLoop; every
\* other dispatch that does not panic moves the counter by exactly one.
C14_EndLoop ==
  [][(phase = "run" /\ program_counter < Len(opcodes) /\ phase' = "run") =>
       program_counter' =
         (IF Cur.op = "EndLoop" /\ Cell # 0
            THEN OpenPartner(opcodes, program_counter)
          ELSE IF Cur.op = "BeginLoop" /\ Cell = 0
            THEN Partner(opcodes, program_counter)
          ELSE program_counter) + 1]_vars

\* an EndLoop has just sent the counter back into a body of two or more
\* opcodes
C14_Witness ==
  /\ phase = "run" /\ prev_pc >= 0
  /\ OpAt(prev_pc) = "EndLoop"
  /\ Cell # 0
  /\ program_counter < prev_pc - 1
  /\ OpAt(program_counter - 1) = "BeginLoop"

\* C15: ShiftRight(n) at position p sets the position to p + n; afterwards
\* the tape length is max(old length, p + n + 1), every old cell keeps its
\* value and index and every appended cell is 0.
C15_ShiftRight ==
  [][Dispatching("ShiftRight") =>
       /\ phase' = "run"
       /\ tape_pos' = tape_pos + Cur.n
       /\ Len(tape') = Max(Len(tape), tape_pos + Cur.n + 1)
       /\ \A k \in 1..Len(tape) : tape'[k] = tape[k]
       /\ \A k \in (Len(tape) + 1)..Len(tape') : tape'[k] = 0]_vars

\* a right shift has just landed on an existing, non-zero cell: no cell was
\* appended
C15_Witness ==
  /\ phase = "run" /\ prev_pc >= 0
  /\ OpAt(prev_pc) = "ShiftRight"
  /\ tape_pos > 0
  /\ Cell # 0

\* C16: during the run of a well-bracketed program the tape is non-empty,
\* 0 <= tape_pos < len(tape), 0 <= program_counter <= len(opcodes), and the
\* jump table is read only at a loop-boundary index, where it holds an index
\* of the sequence.
C16_InBounds ==
  (phase \in {"run", "returned"} \/ (phase = "panicked" /\ jt.ok)) =>
    /\ Len(tape) >= 1
    /\ tape_pos >= 0 /\ tape_pos < Len(tape)
    /\ program_counter >= 0 /\ program_counter <= Len(opcodes)
    /\ Len(table) = Len(opcodes)
    /\ \A i \in Indices : OpAt(i) \in LoopOps => table[i + 1] \in Indices
    /\ (prev_pc >= 0 /\ phase = "run" /\ program_counter # prev_pc + 1) =>
         (OpAt(prev_pc) \in LoopOps /\ program_counter = table[prev_pc + 1] + 1)

\* the run sits at the last cell of a tape grown to the right, after a jump
C16_Witness ==
  /\ phase = "run" /\ prev_pc >= 0
  /\ Len(tape) > 1
  /\ tape_pos = Len(tape) - 1
  /\ OpAt(prev_pc) = "EndLoop"
  /\ program_counter = table[prev_pc + 1] + 1

\* C19: a dispatch never modifies the opcode sequence or the jump table;
\* Print, BeginLoop and EndLoop leave the tape and the position unchanged;
\* Add(n) and Sub(n) change only the current cell, by n modulo 256.
C19_Frame ==
  [][(phase = "run" /\ program_counter < Len(opcodes)) =>
       /\ opcodes' = opcodes /\ table' = table /\ jt' = jt
       /\ Cur.op \in {"Print", "BeginLoop", "EndLoop"} =>
            (tape' = tape /\ tape_pos' = tape_pos)
       /\ Cur.op \in {"Add", "Sub"} =>
            /\ tape_pos' = tape_pos
            /\ Len(tape') = Len(tape)
            /\ \A k \in 1..Len(tape) : k # tape_pos + 1 => tape'[k] = tape[k]
            /\ \E d \in 0..(U8 - 1) :
                 /\ d = Cur.n % U8
                 /\ tape'[tape_pos + 1] \in 0..(U8 - 1)
                 /\ IF Cur.op = "Add"
                      THEN (tape'[tape_pos + 1] - Cell - d) % U8 = 0
                      ELSE (tape'[tape_pos + 1] - Cell + d) % U8 = 0]_vars

\* an Add has just wrapped the current cell past 255
C19_Witness ==
  /\ phase = "run" /\ prev_pc >= 0
  /\ OpAt(prev_pc) = "Add"
  /\ Cell < opcodes[prev_pc + 1].n

SingleChars == {".", ",", "[", "]"}

SingleOps == {"Print", "Input", "BeginLoop", "EndLoop"}

SingleName(c) ==
  IF c = "." THEN "Print"
  ELSE IF c = "," THEN "Input"
  ELSE IF c = "[" THEN "BeginLoop"
  ELSE "EndLoop"

\* the '.', ',', '[' and ']' of s, in order, each as its opcode
SinglesOf(s) ==
  LET cs == SelectSeq(s, LAMBDA c : c \in SingleChars)
  IN [k \in 1..Len(cs) |-> Opcode(SingleName(cs[k]), 0)]

HasLongRun(s) == \E i \in 1..(Len(s) - 1) : SameRun(s[i], s[i + 1])

\* C17: compile_opcodes emits at most as many opcodes as there are command
\* characters, strictly fewer when a run of '+'/'-' or '<'/'>' is longer than
\* one character, and the '.', ',', '[', ']' each yield one opcode of their
\* own, in source order.
C17_Lengths ==
  phase # "start" =>
    /\ Len(opcodes) <= Len(Stripped(src))
    /\ HasLongRun(Stripped(src)) => Len(opcodes) < Len(Stripped(src))
    /\ SelectSeq(opcodes, LAMBDA o : o.op \in SingleOps) = SinglesOf(Stripped(src))

\* a source with a long run and several single-character commands has been
\* compiled
C17_Witness ==
  /\ phase # "start"
  /\ HasLongRun(Stripped(src))
  /\ Len(opcodes) > 2
  /\ \E k \in 1..Len(opcodes) : opcodes[k].op \in CountedOps
  /\ Len(SinglesOf(Stripped(src))) > 2

\* C18: comments are removed before runs are formed: compile_opcodes(s)
\* equals compile_opcodes of s without its comment characters, "+x+" gives
\* the single opcode Add(2), and a source without command characters gives
\* the empty sequence.
C18_Comments ==
  phase # "start" =>
    /\ opcodes = compile_opcodes(Stripped(src))
    /\ src = <<"+", "x", "+">> => opcodes = <<Opcode("Add", 2)>>
    /\ Stripped(src) = <<>> => opcodes = <<>>

\* "+x+" has been compiled to one opcode
C18_Witness ==
  /\ phase # "start"
  /\ src = <<"+", "x", "+">>
  /\ Len(opcodes) = 1

HaltingTests ==
  { <<"+", "+", "[", "-", "]">>,
    <<"-", "-", "[", "+", "]">>,
    <<">", "+", "+", "[", "-", "<", "-", ">", "]", "<", "[", "+", "]">> }

Comparable(s) ==
  /\ \A k \in 1..Len(s) : s[k] # ","
  /\ \A k \in 0..(Len(Stripped(s)) - 1) : CharBalance(Stripped(s), 0, k) >= 0
  /\ CharBalance(Stripped(s), 0, Len(Stripped(s)) - 1) = 0

\* the cell values the engine has dispatched Print on
EnginePrinted ==
  IF phase = "panicked" /\ panic_msg = "unwrap on None"
    THEN Append(stdout, Cell)
    ELSE stdout

EngineEnded ==
  \/ phase \in {"returned", "panicked"}
  \/ (phase = "run" /\ program_counter = Len(opcodes))

\* C13: for a well-bracketed source without ',' the folded pipeline and the
\* reference interpreter dispatch Print on the same sequence of cell values
\* and end together (a sink that rejects a write is left out); for the Hello
\* World program the sequence is the bytes of "Hello, World!".
C13_Equivalent ==
  (Comparable(src) /\ panic_msg # "Could not write") =>
    /\ Len(r_out) <= Len(EnginePrinted)
    /\ Len(EnginePrinted) <= Len(r_out) + 1
    /\ r_out = SubSeq(EnginePrinted, 1, Len(r_out))
    /\ (jt.ok /\ ~RefTurn) =>
         /\ r_out = EnginePrinted
         /\ EngineEnded <=> RefDone
    /\ (src = HelloWorld /\ phase = "returned") =>
         stdout = <<72, 101, 108, 108, 111, 44, 32, 87, 111, 114, 108, 100, 33>>

====
